---- MODULE Spec2Model ----
(***************************************************************************)
(* The Data Vault server (src/data_vault.py): client contexts navigate a   *)
(* tree of sessions, create or open datasets, append and stream rows,      *)
(* parameters and comments, and are notified through listener sets.        *)
(*                                                                         *)
(* The request handlers of class DataVault are translated from             *)
(* src/data_vault.py.  The classes SessionStore, Session and Dataset live  *)
(* in the package `datavault`, which src/ does not hold; their operations  *)
(* are modelled from the specification's sections 3 and 4.                 *)
(***************************************************************************)
EXTENDS Integers, Sequences, FiniteSets, TLC

\* ------------------------------------------------------------------ bounds
\* Sessions the store may hold (the root included).
MaxSessions == 3
\* Datasets over all sessions.
MaxDatasets == 2
\* Rows one dataset may hold.
MaxRows == 2
\* Parameters, and comments, one dataset may hold.
MaxMeta == 1

\* Context identifiers (c.ID).
Contexts == {"c1", "c2"}
\* Directory names a client may pass.
Names == {"a", "b"}
\* Dataset titles a client may pass; "" stands for a missing title.
Titles == {"", "scan"}
\* Rows a client may submit: two well-formed rows, a short one, a long one.
RowInputs == {<<0, 1>>, <<1, 0>>, <<0>>, <<0, 1, 0>>}
\* Batches a client may submit to add: of no row, one row, two rows.
Batches == {<<>>} \cup {<<r>> : r \in RowInputs}
              \cup {<<r, s>> : r \in RowInputs, s \in RowInputs}
\* The limit argument of get and get_comments: <<>> for None, or <<n>>.
None == <<>>
Limits == {None, <<1>>}
\* Parameter names and comment texts a client may pass.
ParamNames == {"p"}
ParamBatches == {<<>>, <<"p">>}
CommentTexts == {"note"}
\* The variables every dataset of the model is created with.
Independents == <<"time">>
Dependents == <<"signal">>

\* Tags a client may pass to update_tags, as the characters of the string:
\* a tag, the tag with '-' before it, the tag with '^' before it.
TagInputs == {<<"t">>, <<"-", "t">>, <<"^", "t">>}

VARIABLES
    serving,        \* initServer has run
    session_store,  \* DataVault.session_store: path -> Session
    ctx,            \* the context objects c, one per context identifier
    hist            \* history, per context: how its dataset was selected, the
                    \* non-empty results of its gets since the selection or
                    \* a restart, one after the other, and how many listener
                    \* structures its expiry cleared

vars == <<serving, session_store, ctx, hist>>

\* ------------------------------------------------------------------ paths
Root == <<"">>

Prefixes(p) == {SubSeq(p, 1, k) : k \in 1..Len(p)}

Min(a, b) == IF a < b THEN a ELSE b

\* Python's temp[:-n] for n > 0.
DropLast(p, n) == SubSeq(p, 1, Len(p) - Min(n, Len(p)))

Range(seq) == {seq[i] : i \in 1..Len(seq)}

\* ----------------------------------------------------------- SessionStore
\* Session.tags of a session nobody tagged: entry -> set of tags.
NoTags == [e \in {} |-> {}]

NewSession == [listeners |-> {}, datasets |-> <<>>, tags |-> NoTags]

\* SessionStore.exists(path)
Exists(ss, path) == path \in DOMAIN ss

\* SessionStore.get(path): the store after the call; the Session it returns
\* is the one at `path`.  Creates the session and its missing ancestors.
Touch(ss, path) ==
    [q \in DOMAIN ss \cup Prefixes(path) |->
        IF q \in DOMAIN ss THEN ss[q] ELSE NewSession]

\* SessionStore.get_all()
GetAll(ss) == DOMAIN ss

\* ------------------------------------------------------------------ contexts
NoName == [num |-> 0, title |-> ""]
NoRef == <<>>

\* A context the framework has not initialized, or has expired and dropped.
NoContext ==
    [live |-> FALSE, path |-> <<>>, session |-> <<>>, has |-> FALSE,
     dataset |-> NoName, datasetObj |-> NoRef,
     filepos |-> 0, commentpos |-> 0, writing |-> FALSE]

NoHist == [sel |-> "none", seen |-> <<>>, cleared |-> 0]

\* What a handler does: the store and the caller's context after it, the
\* error it raised ("ok" when none), the value returned, the signals emitted.
Out(ss, cx, err, ret, signals) ==
    [ss |-> ss, cx |-> cx, err |-> err, ret |-> ret, signals |-> signals]

\* A handler that raises before it changed anything.
Raise(ss, cx, err) == Out(ss, cx, err, <<>>, {})

\* contextKey(c)
contextKey(c) == c

\* ------------------------------------------------------------------ startup
Init ==
    /\ serving = FALSE
    /\ session_store = <<>>
    /\ ctx = [c \in Contexts |-> NoContext]
    /\ hist = [c \in Contexts |-> NoHist]

\* DataVault.initServer
initServer ==
    /\ ~serving
    /\ serving' = TRUE
    /\ session_store' = Touch(session_store, Root)
    /\ UNCHANGED <<ctx, hist>>

\* The session's listener set after listeners.add(key).
AddListener(ss, path, key) ==
    [ss EXCEPT ![path].listeners = @ \cup {key}]

\* The context after initContext: c['path'], c['session'].
InitCtx == [NoContext EXCEPT !.live = TRUE, !.path = Root, !.session = Root]

\* initContext that builds a root session of its own for the context.
InitListenersFresh(ss, key) ==
    [q \in DOMAIN ss \cup {Root} |->
        IF q = Root THEN [NewSession EXCEPT !.listeners = {key}] ELSE ss[q]]

\* The store after initContext.
InitListeners(ss, key) == AddListener(Touch(ss, Root), Root, key)

\* DataVault.initContext, run by the framework on a context's first request.
initContext(c) ==
    /\ serving
    /\ ~ctx[c].live
    /\ ctx' = [ctx EXCEPT ![c] = InitCtx]
    /\ session_store' = InitListeners(session_store, contextKey(c))
    /\ hist' = [hist EXCEPT ![c] = NoHist]
    /\ UNCHANGED serving

\* ------------------------------------------------------------------ cd
\* The loop of cd that checks each segment and touches no session, so that
\* only the directory cd ends in is created.
RECURSIVE CdWalkNoTouch(_, _, _, _)
CdWalkNoTouch(ss, temp, segs, create) ==
    IF segs = <<>>
    THEN [err |-> "ok", temp |-> temp, ss |-> ss]
    ELSE LET t == IF Head(segs) = "" THEN Root ELSE Append(temp, Head(segs))
         IN  IF ~Exists(ss, t) /\ ~create
             THEN [err |-> "DirectoryNotFound", temp |-> t, ss |-> ss]
             ELSE CdWalkNoTouch(ss, t, Tail(segs), create)

\* The loop of cd with the session touched before the check that it exists.
RECURSIVE CdWalkTouchFirst(_, _, _, _)
CdWalkTouchFirst(ss, temp, segs, create) ==
    IF segs = <<>>
    THEN [err |-> "ok", temp |-> temp, ss |-> ss]
    ELSE LET t == IF Head(segs) = "" THEN Root ELSE Append(temp, Head(segs))
         IN  IF ~Exists(Touch(ss, t), t) /\ ~create
             THEN [err |-> "DirectoryNotFound", temp |-> t, ss |-> Touch(ss, t)]
             ELSE CdWalkTouchFirst(Touch(ss, t), t, Tail(segs), create)

\* The loop of cd over the segments of a path given by name: the path
\* walked to, the store after the sessions touched, and whether a segment
\* was missing with create unset.
RECURSIVE CdWalk(_, _, _, _)
CdWalk(ss, temp, segs, create) ==
    IF segs = <<>>
    THEN [err |-> "ok", temp |-> temp, ss |-> ss]
    ELSE LET t == IF Head(segs) = "" THEN Root ELSE Append(temp, Head(segs))
         IN  IF ~Exists(ss, t) /\ ~create
             THEN [err |-> "DirectoryNotFound", temp |-> t, ss |-> ss]
             ELSE CdWalk(Touch(ss, t), t, Tail(segs), create)

\* The numeric branch of cd without its test that n is positive: temp[:-0]
\* is the empty list, which the next line takes for the root.
CdUpUnguarded(path, n) ==
    IF n = 0 THEN Root
    ELSE IF DropLast(path, n) = <<>> THEN Root ELSE DropLast(path, n)

\* The numeric branch of cd: go up by n directories, stopping at the root.
CdUp(path, n) ==
    IF n > 0
    THEN IF DropLast(path, n) = <<>> THEN Root ELSE DropLast(path, n)
    ELSE path

\* The arguments of cd: ["w", n], ["s", name] or ["*s", names].
CdSegments(arg) == IF arg.kind = "s" THEN <<arg.val>> ELSE arg.val

CdResolve(ss, path, arg, create) ==
    IF arg.kind = "w"
    THEN [err |-> "ok", temp |-> CdUp(path, arg.val), ss |-> ss]
    ELSE CdWalk(ss, path, CdSegments(arg), create)

\* cd that starts listening to the new session and never leaves the old one.
CdListenersKeepOld(ss, cx, key, temp) == AddListener(Touch(ss, temp), temp, key)

\* The store after the context stopped listening to its old session and
\* started listening to the session at temp.
CdListeners(ss, cx, key, temp) ==
    AddListener(Touch([ss EXCEPT ![cx.session].listeners = @ \ {key}], temp),
                temp, key)

\* cd that records the new path and keeps the old session.
CdCtxPathOnly(cx, temp) == [cx EXCEPT !.path = temp]

\* cd that closes the dataset when it moves.
CdCtxClose(cx, temp) ==
    [cx EXCEPT !.session = temp, !.path = temp, !.has = FALSE,
               !.dataset = NoName, !.datasetObj = NoRef]

\* The context after cd moved it to temp.
CdCtx(cx, temp) == [cx EXCEPT !.session = temp, !.path = temp]

\* DataVault.cd with a path argument.
cd(ss, cx, key, arg, create) ==
    LET r == CdResolve(ss, cx.path, arg, create)
    IN  IF r.err # "ok" THEN Out(r.ss, cx, r.err, r.temp, {})
        ELSE IF cx.path = r.temp THEN Out(r.ss, cx, "ok", cx.path, {})
        ELSE IF key \notin r.ss[cx.session].listeners
        THEN Out(r.ss, cx, "KeyError", <<>>, {})
        ELSE Out(CdListeners(r.ss, cx, key, r.temp), CdCtx(cx, r.temp),
                 "ok", r.temp, {})

\* DataVault.cd with no argument: the current path.
pwd(ss, cx, key) == Out(ss, cx, "ok", cx.path, {})

\* mkdir that selects the directory it made.
mkdir_enter(ss, cx, key, name) ==
    IF name = "" THEN Raise(ss, cx, "EmptyName")
    ELSE IF Exists(ss, Append(cx.path, name))
    THEN Raise(ss, cx, "DirectoryExists")
    ELSE Out(CdListeners(ss, cx, key, Append(cx.path, name)),
             CdCtx(cx, Append(cx.path, name)), "ok", Append(cx.path, name), {})

\* mkdir that returns the path and makes no directory.
mkdir_unmade(ss, cx, key, name) ==
    IF name = "" THEN Raise(ss, cx, "EmptyName")
    ELSE IF Exists(ss, Append(cx.path, name))
    THEN Raise(ss, cx, "DirectoryExists")
    ELSE Out(ss, cx, "ok", Append(cx.path, name), {})

\* DataVault.mkdir
mkdir(ss, cx, key, name) ==
    IF name = "" THEN Raise(ss, cx, "EmptyName")
    ELSE IF Exists(ss, Append(cx.path, name))
    THEN Raise(ss, cx, "DirectoryExists")
    ELSE Out(Touch(ss, Append(cx.path, name)), cx, "ok",
             Append(cx.path, name), {})

\* ------------------------------------------------------------------ Dataset
\* A listener structure with offsets: context -> last delivered offset.
EmptyMap == [k \in {} |-> 0]

\* A Dataset as Session.newDataset constructs it.
NewDataset(num, title) ==
    [name |-> [num |-> num, title |-> title],
     independents |-> Independents, dependents |-> Dependents,
     rows |-> <<>>, parameters |-> <<>>, comments |-> <<>>,
     listeners |-> EmptyMap, param_listeners |-> {},
     comment_listeners |-> EmptyMap]

\* The Dataset object a reference <<path, index>> denotes.
DatasetAt(ss, ref) == ss[ref[1]].datasets[ref[2]]

\* The store with the dataset at ref replaced.
PutDataset(ss, ref, ds) == [ss EXCEPT ![ref[1]].datasets[ref[2]] = ds]

\* Every dataset of the store, as a reference.
AllRefs(ss) ==
    UNION {{<<p, i>> : i \in 1..Len(ss[p].datasets)} : p \in DOMAIN ss}

\* A listener structure with offsets after the entry of key is set to pos.
Register(ls, key, pos) ==
    [k \in DOMAIN ls \cup {key} |-> IF k = key THEN pos ELSE ls[k]]

\* Dataset.keepStreaming(key, pos)
keepStreaming(ds, key, pos) == [ds EXCEPT !.listeners = Register(@, key, pos)]

\* Dataset.keepStreamingComments(key, pos)
keepStreamingComments(ds, key, pos) ==
    [ds EXCEPT !.comment_listeners = Register(@, key, pos)]

\* The slice getData and getComments return: the items from offset `from`,
\* at most `limit` of them.
Slice(items, limit, from) ==
    IF limit = None
    THEN SubSeq(items, from + 1, Len(items))
    ELSE SubSeq(items, from + 1, Min(from + limit[1], Len(items)))

\* Dataset.getData(limit, from): the rows, and the offset to resume from.
getData(ds, limit, from) ==
    [data |-> Slice(ds.rows, limit, from),
     pos |-> from + Len(Slice(ds.rows, limit, from))]

\* Dataset.getComments(limit, from)
getComments(ds, limit, from) ==
    [data |-> Slice(ds.comments, limit, from),
     pos |-> from + Len(Slice(ds.comments, limit, from))]

\* The number of values a row of the dataset holds.
Arity(ds) == Len(ds.independents) + Len(ds.dependents)

\* Whether every row of a batch fits the variables.
WellFormed(ds, data) == \A i \in 1..Len(data) : Len(data[i]) = Arity(ds)

\* The contexts signalled 'data available' once the dataset holds its rows.
DataSignals(ds) ==
    {<<"data available", k>> :
        k \in {j \in DOMAIN ds.listeners : ds.listeners[j] < Len(ds.rows)}}

\* Dataset.addData(data): the outcome, the dataset after it, the signals.
addData(ds, data) ==
    IF WellFormed(ds, data)
    THEN [err |-> "ok", ds |-> [ds EXCEPT !.rows = @ \o data],
          signals |-> DataSignals([ds EXCEPT !.rows = @ \o data])]
    ELSE [err |-> "BadData", ds |-> ds, signals |-> {}]

\* The names of a batch the dataset does not hold yet, each once, in order.
RECURSIVE FreshNames(_, _)
FreshNames(have, names) ==
    IF names = <<>> THEN <<>>
    ELSE IF Head(names) \in have
         THEN FreshNames(have, Tail(names))
         ELSE <<Head(names)>> \o FreshNames(have \cup {Head(names)}, Tail(names))

\* Dataset.addParameter / addParameters.  The design leaves open whether
\* re-adding a name fails or overwrites; `overwrite` is that choice.
addParameters(ds, names, overwrite) ==
    IF FreshNames(Range(ds.parameters), names) # names /\ ~overwrite
    THEN [err |-> "ParameterExists", ds |-> ds, signals |-> {}]
    ELSE [err |-> "ok",
          ds |-> [ds EXCEPT
                    !.parameters = @ \o FreshNames(Range(ds.parameters), names),
                    !.param_listeners = {}],
          signals |-> {<<"new parameter", k>> : k \in ds.param_listeners}]

\* Dataset.getParameter(name)
getParameter(ds, name) ==
    IF name \in Range(ds.parameters) THEN "ok" ELSE "ParameterNotFound"

\* Dataset.addComment(user, comment)
addComment(ds, user, comment) ==
    [err |-> "ok",
     ds |-> [ds EXCEPT !.comments = Append(@, [user |-> user, text |-> comment])],
     signals |-> {<<"comments available", k>> : k \in DOMAIN ds.comment_listeners}]

\* Session.newDataset(title, independents, dependents): the store after it.
newDataset(ss, path, title) ==
    [ss EXCEPT ![path].datasets = Append(@, NewDataset(Len(@) + 1, title))]

\* Session.openDataset(name), name being ["w", n] or ["s", name]: the index
\* of the dataset, 0 when there is none.
openDataset(sess, arg) ==
    IF arg.kind = "w"
    THEN IF arg.val \in 1..Len(sess.datasets) THEN arg.val ELSE 0
    ELSE IF \E i \in 1..Len(sess.datasets) : sess.datasets[i].name = arg.val
         THEN CHOOSE i \in 1..Len(sess.datasets) : sess.datasets[i].name = arg.val
         ELSE 0

\* ------------------------------------------------------------------ expiry
\* removeFromList that empties the listener structure it finds the key in.
RemoveAll(ls, key) ==
    IF key \in DOMAIN ls THEN [k \in {} |-> 0] ELSE ls

\* removeFromList, for a listener structure with offsets.
RemoveKey(ls, key) == [k \in DOMAIN ls \ {key} |-> ls[k]]

\* expireContext that forgets the comment listeners.
ExpireDatasetNoComments(ds, key) ==
    [ds EXCEPT !.listeners = RemoveKey(@, key),
               !.param_listeners = @ \ {key}]

\* The dataset after the inner loop body of expireContext.
ExpireDataset(ds, key) ==
    [ds EXCEPT !.listeners = RemoveKey(@, key),
               !.param_listeners = @ \ {key},
               !.comment_listeners = RemoveKey(@, key)]

\* The session after the outer loop body of expireContext.
ExpireSession(sess, key) ==
    [listeners |-> sess.listeners \ {key},
     datasets |-> [i \in 1..Len(sess.datasets) |->
                      ExpireDataset(sess.datasets[i], key)],
     tags |-> sess.tags]

\* expireContext that also drops the sessions it leaves without listener
\* and without dataset, the root excepted.
ExpireStoreDropIdle(ss, key) ==
    [p \in {q \in GetAll(ss) :
               \/ q = Root
               \/ ExpireSession(ss[q], key).listeners # {}
               \/ ss[q].datasets # <<>>} |-> ExpireSession(ss[p], key)]

\* DataVault.expireContext: the store after it.
ExpireStore(ss, key) == [p \in GetAll(ss) |-> ExpireSession(ss[p], key)]

\* The listener structures that hold key.
Subscriptions(ss, key) ==
    {<<"session", p>> : p \in {q \in DOMAIN ss : key \in ss[q].listeners}}
    \cup {<<"data", r>> :
            r \in {x \in AllRefs(ss) : key \in DOMAIN DatasetAt(ss, x).listeners}}
    \cup {<<"param", r>> :
            r \in {x \in AllRefs(ss) : key \in DatasetAt(ss, x).param_listeners}}
    \cup {<<"comment", r>> :
            r \in {x \in AllRefs(ss) :
                      key \in DOMAIN DatasetAt(ss, x).comment_listeners}}

\* DataVault.expireContext; the framework then drops the context object.
expireContext(c) ==
    /\ serving
    /\ ctx[c].live
    /\ session_store' = ExpireStore(session_store, contextKey(c))
    /\ ctx' = [ctx EXCEPT ![c] = NoContext]
    /\ hist' = [hist EXCEPT ![c] =
                  [NoHist EXCEPT !.cleared =
                      Cardinality(Subscriptions(session_store, contextKey(c)))]]
    /\ UNCHANGED serving

\* ------------------------------------------------------------------ handlers
\* DataVault.getSession: the Session object is identified by its path.
getSession(cx) == cx.session

\* DataVault.getDataset: the error it raises, or "ok".
getDataset(cx) == IF ~cx.has THEN "NoDataset" ELSE "ok"

\* The characters of a directory name; the names of the model have one.
Chars(name) == IF name = "" THEN <<>> ELSE <<name>>

\* '/'.join(path), as the sequence of its characters.
RECURSIVE Join(_)
Join(path) ==
    IF Len(path) = 1 THEN Chars(path[1])
    ELSE Join(SubSeq(path, 1, Len(path) - 1)) \o <<"/">> \o Chars(path[Len(path)])

\* DataVault.dump_existing_sessions; the order of the list is the store's.
dump_existing_sessions(ss, cx, key) ==
    Out(ss, cx, "ok", {Join(p) : p \in GetAll(ss)}, {})

\* The context after new selected the dataset.
NewCtx(cx, name, ref) ==
    [cx EXCEPT !.has = TRUE, !.dataset = name, !.datasetObj = ref,
               !.filepos = 0, !.commentpos = 0, !.writing = TRUE]

\* The title new passes on: name or 'untitled'.
NewTitle(name) == IF name = "" THEN "untitled" ELSE name

\* new that selects the dataset of the session that already has the title,
\* when there is one.
new_reuse(ss, cx, key, name) ==
    LET path == getSession(cx)
        same == {i \in 1..Len(ss[path].datasets) :
                    ss[path].datasets[i].name.title = NewTitle(name)}
        ss1 == IF same = {} THEN newDataset(ss, path, NewTitle(name)) ELSE ss
        ref == IF same = {} THEN <<path, Len(ss1[path].datasets)>>
               ELSE <<path, CHOOSE i \in same : TRUE>>
    IN  Out(ss1, NewCtx(cx, DatasetAt(ss1, ref).name, ref), "ok",
            <<cx.path, DatasetAt(ss1, ref).name>>, {})

\* DataVault.new
new(ss, cx, key, name) ==
    LET path == getSession(cx)
        ss1 == newDataset(ss, path, NewTitle(name))
        ref == <<path, Len(ss1[path].datasets)>>
    IN  Out(ss1, NewCtx(cx, DatasetAt(ss1, ref).name, ref), "ok",
            <<cx.path, DatasetAt(ss1, ref).name>>, {})

\* open that keeps the row cursor of the previous selection.
OpenCtxKeepPos(cx, name, ref) ==
    [cx EXCEPT !.has = TRUE, !.dataset = name, !.datasetObj = ref,
               !.commentpos = 0, !.writing = FALSE]

\* open that leaves the dataset writable.
OpenCtxWritable(cx, name, ref) ==
    [cx EXCEPT !.has = TRUE, !.dataset = name, !.datasetObj = ref,
               !.filepos = 0, !.commentpos = 0, !.writing = TRUE]

\* The context after open selected the dataset.
OpenCtx(cx, name, ref) ==
    [cx EXCEPT !.has = TRUE, !.dataset = name, !.datasetObj = ref,
               !.filepos = 0, !.commentpos = 0, !.writing = FALSE]

\* open that registers the context for comments and not for data.
OpenListenersCommentsOnly(ds, key) == keepStreamingComments(ds, key, 0)

\* The dataset after open registered the context for data and comments.
OpenListeners(ds, key) ==
    keepStreamingComments(keepStreaming(ds, key, 0), key, 0)

\* DataVault.open
open(ss, cx, key, arg) ==
    LET path == getSession(cx)
        idx == openDataset(ss[path], arg)
        ref == <<path, idx>>
    IN  IF idx = 0 THEN Raise(ss, cx, "DatasetNotFound")
        ELSE Out(PutDataset(ss, ref, OpenListeners(DatasetAt(ss, ref), key)),
                 OpenCtx(cx, DatasetAt(ss, ref).name, ref), "ok",
                 <<cx.path, DatasetAt(ss, ref).name>>, {})

\* add that hands the rows of its batch to Dataset.addData one by one, and
\* stops at the row that is refused.
RECURSIVE AddCallByRow(_, _)
AddCallByRow(ds, data) ==
    IF data = <<>> THEN [err |-> "ok", ds |-> ds, signals |-> {}]
    ELSE LET r == addData(ds, <<Head(data)>>)
         IN  IF r.err # "ok" THEN r
             ELSE LET t == AddCallByRow(r.ds, Tail(data))
                  IN  [t EXCEPT !.signals = @ \cup r.signals]

\* The call of Dataset.addData that add makes with its batch.
AddCall(ds, data) == addData(ds, data)

\* DataVault.add
add(ss, cx, key, data) ==
    IF getDataset(cx) # "ok" THEN Raise(ss, cx, getDataset(cx))
    ELSE IF ~cx.writing THEN Raise(ss, cx, "ReadOnly")
    ELSE LET r == AddCall(DatasetAt(ss, cx.datasetObj), data)
         IN  Out(PutDataset(ss, cx.datasetObj, r.ds), cx, r.err, <<>>, r.signals)

\* get that reads from the start whatever startOver says.
GetStartAlwaysOver(cx, startOver) == 0

\* The offset get reads from.
GetStart(cx, startOver) == IF startOver THEN 0 ELSE cx.filepos

\* get that does not store the offset to resume from.
GetCtxStale(cx, pos) == cx

\* The context after get: c['filepos'].
GetCtx(cx, pos) == [cx EXCEPT !.filepos = pos]

\* DataVault.get
get(ss, cx, key, limit, startOver) ==
    IF getDataset(cx) # "ok" THEN Raise(ss, cx, getDataset(cx))
    ELSE LET ds == DatasetAt(ss, cx.datasetObj)
             r == getData(ds, limit, GetStart(cx, startOver))
         IN  Out(PutDataset(ss, cx.datasetObj, keepStreaming(ds, key, r.pos)),
                 GetCtx(cx, r.pos), "ok", r.data, {})

\* DataVault.variables
variables(ss, cx, key) ==
    IF getDataset(cx) # "ok" THEN Raise(ss, cx, getDataset(cx))
    ELSE Out(ss, cx, "ok", <<DatasetAt(ss, cx.datasetObj).independents,
                             DatasetAt(ss, cx.datasetObj).dependents>>, {})

\* get_name that reads c['dataset'] and never asks getDataset.
get_name_unchecked(ss, cx, key) == Out(ss, cx, "ok", cx.dataset, {})

\* DataVault.get_name
get_name(ss, cx, key) ==
    IF getDataset(cx) # "ok" THEN Raise(ss, cx, getDataset(cx))
    ELSE Out(ss, cx, "ok", DatasetAt(ss, cx.datasetObj).name, {})

\* The dataset after parameters registered the context.
ParamListen(ds, key) == [ds EXCEPT !.param_listeners = @ \cup {key}]

\* DataVault.parameters
parameters(ss, cx, key) ==
    IF getDataset(cx) # "ok" THEN Raise(ss, cx, getDataset(cx))
    ELSE LET ds == DatasetAt(ss, cx.datasetObj)
         IN  Out(PutDataset(ss, cx.datasetObj, ParamListen(ds, key)), cx, "ok",
                 ds.parameters, {})

\* get_parameters that forgets to register the context.
GetParamsForget(ds, key) == ds

\* The dataset after get_parameters registered the context.
GetParamsListen(ds, key) == [ds EXCEPT !.param_listeners = @ \cup {key}]

\* DataVault.get_parameters
get_parameters(ss, cx, key) ==
    IF getDataset(cx) # "ok" THEN Raise(ss, cx, getDataset(cx))
    ELSE LET ds == DatasetAt(ss, cx.datasetObj)
         IN  Out(PutDataset(ss, cx.datasetObj, GetParamsListen(ds, key)), cx,
                 "ok", ds.parameters, {})

\* DataVault.add_parameter
add_parameter(ss, cx, key, name, overwrite) ==
    IF getDataset(cx) # "ok" THEN Raise(ss, cx, getDataset(cx))
    ELSE LET r == addParameters(DatasetAt(ss, cx.datasetObj), <<name>>, overwrite)
         IN  Out(PutDataset(ss, cx.datasetObj, r.ds), cx, r.err, <<>>, r.signals)

\* DataVault.add_parameters
add_parameters(ss, cx, key, params, overwrite) ==
    IF getDataset(cx) # "ok" THEN Raise(ss, cx, getDataset(cx))
    ELSE LET r == addParameters(DatasetAt(ss, cx.datasetObj), params, overwrite)
         IN  Out(PutDataset(ss, cx.datasetObj, r.ds), cx, r.err, <<>>, r.signals)

\* DataVault.get_parameter
get_parameter(ss, cx, key, name) ==
    IF getDataset(cx) # "ok" THEN Raise(ss, cx, getDataset(cx))
    ELSE Out(ss, cx, getParameter(DatasetAt(ss, cx.datasetObj), name), name, {})

\* DataVault.add_comment
add_comment(ss, cx, key, comment, user) ==
    IF getDataset(cx) # "ok" THEN Raise(ss, cx, getDataset(cx))
    ELSE LET r == addComment(DatasetAt(ss, cx.datasetObj), user, comment)
         IN  Out(PutDataset(ss, cx.datasetObj, r.ds), cx, r.err, <<>>, r.signals)

\* The offset get_comments reads from.
GetCommentsStart(cx, startOver) == IF startOver THEN 0 ELSE cx.commentpos

\* get_comments that does not store the offset to resume from.
GetCommentsCtxStale(cx, pos) == cx

\* The context after get_comments: c['commentpos'].
GetCommentsCtx(cx, pos) == [cx EXCEPT !.commentpos = pos]

\* DataVault.get_comments
get_comments(ss, cx, key, limit, startOver) ==
    IF getDataset(cx) # "ok" THEN Raise(ss, cx, getDataset(cx))
    ELSE LET ds == DatasetAt(ss, cx.datasetObj)
             r == getComments(ds, limit, GetCommentsStart(cx, startOver))
         IN  Out(PutDataset(ss, cx.datasetObj,
                            keepStreamingComments(ds, key, r.pos)),
                 GetCommentsCtx(cx, r.pos), "ok", r.data, {})

\* ------------------------------------------------------------------ tags
\* The tags of an entry of a session: none while nobody tagged it.
TagsOf(sess, entry) == IF entry \in DOMAIN sess.tags THEN sess.tags[entry] ELSE {}

\* One tag of updateTags applied to a set of tags: '-' before a tag removes
\* it, '^' before a tag toggles it, any other tag is added.
ApplyTag(have, tag) ==
    IF tag # <<>> /\ Head(tag) = "-" THEN have \ {Tail(tag)}
    ELSE IF tag # <<>> /\ Head(tag) = "^"
    THEN IF Tail(tag) \in have THEN have \ {Tail(tag)} ELSE have \cup {Tail(tag)}
    ELSE have \cup {tag}

\* The tags of updateTags applied one after the other.
RECURSIVE ApplyTags(_, _)
ApplyTags(have, tags) ==
    IF tags = <<>> THEN have ELSE ApplyTags(ApplyTag(have, Head(tags)), Tail(tags))

\* Whether an entry, <<"dir", name>> or <<"dataset", name>>, is a child of
\* the session at path.
IsEntry(ss, path, entry) ==
    IF entry[1] = "dir"
    THEN entry[2] # "" /\ Append(path, entry[2]) \in DOMAIN ss
    ELSE \E i \in 1..Len(ss[path].datasets) : ss[path].datasets[i].name = entry[2]

\* The tags of a session after the tags of updateTags were applied to an entry.
TagEntry(sess, entry, tags) ==
    [sess EXCEPT !.tags =
        [e \in DOMAIN sess.tags \cup {entry} |->
            IF e = entry THEN ApplyTags(TagsOf(sess, entry), tags) ELSE sess.tags[e]]]

\* Session.updateTags over its entries, one after the other; an entry that
\* is no child of the session is rejected, the entries before it stay updated.
RECURSIVE TagEntries(_, _, _, _)
TagEntries(ss, path, entries, tags) ==
    IF entries = <<>> THEN [err |-> "ok", ss |-> ss]
    ELSE IF ~IsEntry(ss, path, Head(entries))
    THEN [err |-> "BadEntry", ss |-> ss]
    ELSE TagEntries([ss EXCEPT ![path] = TagEntry(@, Head(entries), tags)],
                    path, Tail(entries), tags)

\* Session.updateTags(tags, dirs, datasets): the outcome, the store after
\* it, the 'tags updated' signals to the listeners of the session.
updateTags(ss, path, tags, dirs, datasets) ==
    LET r == TagEntries(ss, path,
                        [i \in 1..Len(dirs) |-> <<"dir", dirs[i]>>]
                        \o [i \in 1..Len(datasets) |-> <<"dataset", datasets[i]>>],
                        tags)
    IN  [err |-> r.err, ss |-> r.ss,
         signals |-> IF r.err = "ok"
                     THEN {<<"tags updated", k>> : k \in ss[path].listeners}
                     ELSE {}]

\* Session.getTags(dirs, datasets)
getTags(sess, dirs, datasets) ==
    <<[i \in 1..Len(dirs) |-> <<dirs[i], TagsOf(sess, <<"dir", dirs[i]>>)>>],
      [i \in 1..Len(datasets) |->
          <<datasets[i], TagsOf(sess, <<"dataset", datasets[i]>>)>>]>>

\* A str argument made a list of one; update_tags and get_tags do so for
\* tags, dirs and datasets (['s', '*s']).
AsList(arg) == IF arg.kind = "s" THEN <<arg.val>> ELSE arg.val

\* update_tags that leaves a str of tags as it is: the loop over the tags
\* then takes each character for a tag.
TagListByChar(tags) ==
    IF tags.kind = "s" THEN [i \in 1..Len(tags.val) |-> <<tags.val[i]>>]
    ELSE tags.val

\* The list of tags update_tags passes on.
TagList(tags) == AsList(tags)

\* The datasets update_tags passes on: the open dataset when none is named.
\* The Dataset object then stands where a name is expected; `byName` is
\* whether updateTags takes it for the dataset of that name.
TagDatasets(cx, datasets, byName) ==
    IF datasets = None
    THEN <<IF byName THEN cx.dataset ELSE NoName>>
    ELSE AsList(datasets)

\* DataVault.update_tags
update_tags(ss, cx, key, tags, dirs, datasets, byName) ==
    IF datasets = None /\ getDataset(cx) # "ok" THEN Raise(ss, cx, getDataset(cx))
    ELSE LET r == updateTags(ss, getSession(cx), TagList(tags), AsList(dirs),
                             TagDatasets(cx, datasets, byName))
         IN  Out(r.ss, cx, r.err, <<>>, r.signals)

\* DataVault.get_tags
get_tags(ss, cx, key, dirs, datasets) ==
    Out(ss, cx, "ok", getTags(ss[getSession(cx)], AsList(dirs), AsList(datasets)), {})

\* ------------------------------------------------------------------ requests
\* The store stays within the bounds of the model.
Fits(ss) ==
    /\ Cardinality(DOMAIN ss) <= MaxSessions
    /\ Cardinality(AllRefs(ss)) <= MaxDatasets
    /\ \A r \in AllRefs(ss) :
          /\ Len(DatasetAt(ss, r).rows) <= MaxRows
          /\ Len(DatasetAt(ss, r).parameters) <= MaxMeta
          /\ Len(DatasetAt(ss, r).comments) <= MaxMeta

\* A request of a live context takes effect: the handler's outcome `o`
\* becomes the state.  A handler that raised after changing the store
\* leaves the change behind.
Apply(c, o) ==
    /\ serving
    /\ ctx[c].live
    /\ Fits(o.ss)
    /\ session_store' = o.ss
    /\ ctx' = [ctx EXCEPT ![c] = o.cx]
    /\ UNCHANGED serving

\* A result of get as an entry of the history: nothing when it is empty.
Chunk(data) == IF data = <<>> THEN <<>> ELSE <<data>>

Cd(c, arg, create) ==
    /\ Apply(c, cd(session_store, ctx[c], contextKey(c), arg, create))
    /\ UNCHANGED hist

Pwd(c) ==
    /\ Apply(c, pwd(session_store, ctx[c], contextKey(c)))
    /\ UNCHANGED hist

Mkdir(c, name) ==
    /\ Apply(c, mkdir(session_store, ctx[c], contextKey(c), name))
    /\ UNCHANGED hist

New(c, name) ==
    /\ Apply(c, new(session_store, ctx[c], contextKey(c), name))
    /\ hist' = [hist EXCEPT ![c] = [NoHist EXCEPT !.sel = "new"]]

Open(c, arg) ==
    LET o == open(session_store, ctx[c], contextKey(c), arg)
    IN  /\ Apply(c, o)
        /\ hist' = IF o.err = "ok"
                   THEN [hist EXCEPT ![c] = [NoHist EXCEPT !.sel = "open"]]
                   ELSE hist

Add(c, data) ==
    /\ Apply(c, add(session_store, ctx[c], contextKey(c), data))
    /\ UNCHANGED hist

Get(c, limit, startOver) ==
    LET o == get(session_store, ctx[c], contextKey(c), limit, startOver)
    IN  /\ Apply(c, o)
        /\ hist' = IF o.err = "ok"
                   THEN [hist EXCEPT ![c].seen =
                            IF startOver THEN Chunk(o.ret) ELSE @ \o Chunk(o.ret)]
                   ELSE hist

Variables(c) ==
    /\ Apply(c, variables(session_store, ctx[c], contextKey(c)))
    /\ UNCHANGED hist

GetName(c) ==
    /\ Apply(c, get_name(session_store, ctx[c], contextKey(c)))
    /\ UNCHANGED hist

Parameters(c) ==
    /\ Apply(c, parameters(session_store, ctx[c], contextKey(c)))
    /\ UNCHANGED hist

GetParameters(c) ==
    /\ Apply(c, get_parameters(session_store, ctx[c], contextKey(c)))
    /\ UNCHANGED hist

AddParameter(c, name, overwrite) ==
    /\ Apply(c, add_parameter(session_store, ctx[c], contextKey(c), name, overwrite))
    /\ UNCHANGED hist

AddParameters(c, params, overwrite) ==
    /\ Apply(c, add_parameters(session_store, ctx[c], contextKey(c), params,
                               overwrite))
    /\ UNCHANGED hist

GetParameter(c, name) ==
    /\ Apply(c, get_parameter(session_store, ctx[c], contextKey(c), name))
    /\ UNCHANGED hist

AddComment(c, comment, user) ==
    /\ Apply(c, add_comment(session_store, ctx[c], contextKey(c), comment, user))
    /\ UNCHANGED hist

GetComments(c, limit, startOver) ==
    /\ Apply(c, get_comments(session_store, ctx[c], contextKey(c), limit,
                             startOver))
    /\ UNCHANGED hist

DumpExistingSessions(c) ==
    /\ Apply(c, dump_existing_sessions(session_store, ctx[c], contextKey(c)))
    /\ UNCHANGED hist

UpdateTags(c, tags, dirs, datasets, byName) ==
    /\ Apply(c, update_tags(session_store, ctx[c], contextKey(c), tags, dirs,
                            datasets, byName))
    /\ UNCHANGED hist

GetTags(c, dirs, datasets) ==
    /\ Apply(c, get_tags(session_store, ctx[c], contextKey(c), dirs, datasets))
    /\ UNCHANGED hist

\* The path arguments a client may pass to cd.
Segments == Names \cup {""}
CdArgs ==
    {[kind |-> "w", val |-> n] : n \in 0..MaxSessions}
    \cup {[kind |-> "s", val |-> s] : s \in Segments}
    \cup {[kind |-> "*s", val |-> <<s, t>>] : s \in Segments, t \in Segments}

\* The name arguments a client may pass to open.
OpenArgs ==
    {[kind |-> "w", val |-> n] : n \in 1..MaxDatasets}
    \cup {[kind |-> "s", val |-> [num |-> n, title |-> NewTitle(t)]] :
            n \in 1..MaxDatasets, t \in Titles}

Users == {"anonymous"}

\* Contexts coming and going.
Framework ==
    \/ initServer
    \/ \E c \in Contexts : initContext(c)
    \/ \E c \in Contexts : expireContext(c)

\* Navigation.
Navigate ==
    \/ \E c \in Contexts, arg \in CdArgs, create \in BOOLEAN : Cd(c, arg, create)
    \/ \E c \in Contexts : Pwd(c)
    \/ \E c \in Contexts, name \in Segments : Mkdir(c, name)

\* Rows.
Stream ==
    \/ \E c \in Contexts, data \in Batches : Add(c, data)
    \/ \E c \in Contexts, limit \in Limits, startOver \in BOOLEAN :
          Get(c, limit, startOver)
    \/ \E c \in Contexts : Variables(c)
    \/ \E c \in Contexts : GetName(c)

\* Parameters and comments.
Annotate ==
    \/ \E c \in Contexts : Parameters(c)
    \/ \E c \in Contexts : GetParameters(c)
    \/ \E c \in Contexts, name \in ParamNames, ow \in BOOLEAN :
          AddParameter(c, name, ow)
    \/ \E c \in Contexts, params \in ParamBatches, ow \in BOOLEAN :
          AddParameters(c, params, ow)
    \/ \E c \in Contexts, name \in ParamNames : GetParameter(c, name)
    \/ \E c \in Contexts, text \in CommentTexts, user \in Users :
          AddComment(c, text, user)
    \/ \E c \in Contexts, limit \in Limits, startOver \in BOOLEAN :
          GetComments(c, limit, startOver)

\* ------------------------------------------------------------------ specifications
\* Navigation alone: contexts come, change and make directories, and go.
SpecNav == Init /\ [][Framework \/ Navigate]_vars

\* Navigation through directories that mkdir made: no cd creates one.
NavigateMade ==
    \/ \E c \in Contexts, arg \in CdArgs : Cd(c, arg, FALSE)
    \/ \E c \in Contexts : Pwd(c)
    \/ \E c \in Contexts, name \in Segments : Mkdir(c, name)

SpecMkdir == Init /\ [][Framework \/ NavigateMade]_vars

\* The sessions reported.
Report == \E c \in Contexts : DumpExistingSessions(c)

\* Navigation, and the report of the sessions there are.
SpecDump == Init /\ [][Framework \/ Navigate \/ Report]_vars

\* One dataset, at the root: the first new creates it.
SelectOne ==
    \/ \E c \in Contexts, name \in Titles :
          AllRefs(session_store) = {} /\ New(c, name)
    \/ \E c \in Contexts, arg \in OpenArgs : Open(c, arg)

\* Rows of one dataset, written and streamed by the contexts.
SpecStream == Init /\ [][Framework \/ SelectOne \/ Stream]_vars

\* Parameters and comments of one dataset, with both contexts on it.
SpecAnnotate == Init /\ [][Framework \/ SelectOne \/ Annotate]_vars

\* The context that selects the dataset in SpecIdle.
Writer == "c1"

\* Only the writer selects the dataset.
SelectWriter ==
    \/ \E c \in {Writer}, name \in Titles :
          AllRefs(session_store) = {} /\ New(c, name)
    \/ \E c \in {Writer}, arg \in OpenArgs : Open(c, arg)

\* Every data, parameter and comment request on one dataset, from the
\* context that selected it and from a context that selects none.
SpecIdle == Init /\ [][Framework \/ SelectWriter \/ Stream \/ Annotate]_vars

\* The writer creates a first and a second dataset at the root, and opens them.
SelectAny ==
    \/ \E c \in {Writer}, name \in {"scan"} :
          /\ ctx[c].live
          /\ Len(session_store[Root].datasets) <= 1
          /\ New(c, name)
    \/ \E c \in {Writer}, arg \in OpenArgs : Open(c, arg)

\* Rows and comments, written and read.
Cursors ==
    \/ \E c \in Contexts, data \in {<<<<0, 1>>>>} : Add(c, data)
    \/ \E c \in Contexts, limit \in Limits, startOver \in BOOLEAN :
          Get(c, limit, startOver)
    \/ \E c \in Contexts, text \in CommentTexts, user \in Users :
          AddComment(c, text, user)
    \/ \E c \in Contexts, limit \in Limits, startOver \in BOOLEAN :
          GetComments(c, limit, startOver)

\* Two datasets at the root, selected one after the other by one
\* context that writes and reads their rows and comments.
SpecCursor == Init /\ [][Framework \/ SelectAny \/ Cursors]_vars

\* Datasets created by both contexts, under any title, at the root and in "a".
Naming ==
    \/ \E c \in Contexts, name \in Titles : New(c, name)
    \/ \E c \in Contexts, arg \in OpenArgs : Open(c, arg)
    \/ \E c \in Contexts :
          ctx[c].path = Root /\ Cd(c, [kind |-> "s", val |-> "a"], TRUE)
    \/ \E c \in Contexts, n \in {1} : Cd(c, [kind |-> "w", val |-> n], FALSE)

SpecNames == Init /\ [][Framework \/ Naming]_vars

\* The tags arguments a client may pass to update_tags: a str, or a list.
TagArgs ==
    {[kind |-> "s", val |-> t] : t \in TagInputs}
    \cup {[kind |-> "*s", val |-> <<t>>] : t \in TagInputs}

\* The dirs arguments of update_tags and get_tags.
DirArgs ==
    {[kind |-> "s", val |-> "a"], [kind |-> "*s", val |-> <<>>],
     [kind |-> "*s", val |-> <<"a", "b">>]}

\* The datasets arguments of update_tags and get_tags.
DatasetArgs ==
    {[kind |-> "s", val |-> [num |-> 1, title |-> "scan"]],
     [kind |-> "*s", val |-> <<>>]}

\* Directories and a dataset made at the root, and tagged.
Tagging ==
    \/ \E c \in Contexts, name \in Names : Mkdir(c, name)
    \/ \E c \in Contexts, name \in {"scan"} :
          AllRefs(session_store) = {} /\ New(c, name)
    \/ \E c \in Contexts, tags \in TagArgs, dirs \in DirArgs,
          datasets \in DatasetArgs \cup {None}, byName \in BOOLEAN :
          UpdateTags(c, tags, dirs, datasets, byName)
    \/ \E c \in Contexts, dirs \in DirArgs, datasets \in DatasetArgs :
          GetTags(c, dirs, datasets)

SpecTags == Init /\ [][Framework \/ Tagging]_vars

\* One dataset at the root, tagged, written to, read and subscribed to by
\* both contexts.
Sharing ==
    \/ \E c \in Contexts, name \in {"scan"} :
          AllRefs(session_store) = {} /\ New(c, name)
    \/ \E c \in Contexts, arg \in {[kind |-> "w", val |-> 1]} : Open(c, arg)
    \/ \E c \in Contexts, data \in {<<<<0, 1>>>>} : Add(c, data)
    \/ \E c \in Contexts : Get(c, None, FALSE)
    \/ \E c \in Contexts, name \in ParamNames : AddParameter(c, name, FALSE)
    \/ \E c \in Contexts : Parameters(c)
    \/ \E c \in Contexts, text \in CommentTexts, user \in Users :
          AddComment(c, text, user)
    \/ \E c \in Contexts : GetComments(c, None, FALSE)
    \/ \E c \in Contexts, tags \in {[kind |-> "s", val |-> <<"t">>]} :
          UpdateTags(c, tags, [kind |-> "*s", val |-> <<>>], None, TRUE)

SpecExpire == Init /\ [][Framework \/ Sharing]_vars

\* Two directories, a dataset in each: the contexts move between the root
\* and "a", select the datasets and subscribe to them.
Subscribe ==
    \/ \E c \in Contexts :
          ctx[c].path = Root /\ Cd(c, [kind |-> "s", val |-> "a"], TRUE)
    \/ \E c \in Contexts, n \in 0..1 : Cd(c, [kind |-> "w", val |-> n], FALSE)
    \/ \E c \in Contexts, name \in {"scan"} :
          /\ ctx[c].live
          /\ session_store[getSession(ctx[c])].datasets = <<>>
          /\ New(c, name)
    \/ \E c \in Contexts, arg \in {[kind |-> "w", val |-> 1]} : Open(c, arg)
    \/ \E c \in Contexts : Get(c, None, FALSE)
    \/ \E c \in Contexts : GetComments(c, None, FALSE)
    \/ \E c \in Contexts : Parameters(c)
    \/ \E c \in Contexts : GetParameters(c)

SpecListen == Init /\ [][Framework \/ Subscribe]_vars
\* ------------------------------------------------------------------ claims
\* The sessions whose listener set holds the context's key.
ListenedSessions(c) ==
    {p \in DOMAIN session_store : contextKey(c) \in session_store[p].listeners}

\* The chunks of a history, one after the other.
RECURSIVE Flatten(_)
Flatten(chunks) ==
    IF chunks = <<>> THEN <<>> ELSE Head(chunks) \o Flatten(Tail(chunks))

\* The rows of the dataset the context has selected.
RowsOf(c) == DatasetAt(session_store, ctx[c].datasetObj).rows

\* C1: every live context is in the listener set of exactly one session,
\* the session recorded as its current session.
C1_OneSessionListener ==
    \A c \in Contexts :
        ctx[c].live => ListenedSessions(c) = {ctx[c].session}

\* A context that cd moved two levels down, listening there and not at the root.
C1_Witness ==
    \E c \in Contexts :
        /\ ctx[c].live
        /\ Len(ctx[c].path) = 3
        /\ ListenedSessions(c) = {ctx[c].path}
        /\ Cardinality(DOMAIN session_store) = 3

\* The signals of every add, add_parameter, add_parameters and add_comment
\* the context may issue in the current state.
WriteSignals(d) ==
    UNION ({add(session_store, ctx[d], d, data).signals : data \in Batches}
           \cup {add_parameter(session_store, ctx[d], d, n, ow).signals :
                    n \in ParamNames, ow \in BOOLEAN}
           \cup {add_parameters(session_store, ctx[d], d, ps, ow).signals :
                    ps \in ParamBatches, ow \in BOOLEAN}
           \cup {add_comment(session_store, ctx[d], d, t, u).signals :
                    t \in CommentTexts, u \in Users})

\* C2: an expired context is in no listener structure of any session or
\* dataset, and no add, add_parameter, add_parameters or add_comment a live
\* context may issue signals it.
C2_ExpiredUnsubscribed ==
    \A c \in Contexts :
        ~ctx[c].live =>
            /\ Subscriptions(session_store, contextKey(c)) = {}
            /\ \A d \in Contexts :
                  ctx[d].live =>
                      \A sig \in WriteSignals(d) : sig[2] # contextKey(c)

\* A context expired out of seven listener structures (a session, and the
\* data, parameter and comment listeners of two datasets in two sessions),
\* while a write of the other context still signals somebody.
C2_Witness ==
    \E c \in Contexts :
        /\ ~ctx[c].live
        /\ hist[c].cleared = 7
        /\ \E d \in Contexts : ctx[d].live /\ WriteSignals(d) # {}

\* C3: the non-empty results of a context's gets since it selected the
\* dataset (or started over) are, one after the other, exactly the rows up
\* to its cursor: each get starts where the previous one stopped.
C3_ConsecutiveSlices ==
    \A c \in Contexts :
        (ctx[c].live /\ ctx[c].has) =>
            /\ ctx[c].filepos <= Len(RowsOf(c))
            /\ Flatten(hist[c].seen) = SubSeq(RowsOf(c), 1, ctx[c].filepos)

\* A reader that received the two rows of the dataset in two gets.
C3_Witness ==
    \E c \in Contexts :
        /\ ctx[c].live /\ ctx[c].has /\ ~ctx[c].writing
        /\ Len(hist[c].seen) = 2
        /\ ctx[c].filepos = 2

\* C4: a get with no limit returns every row of the dataset, in order, when
\* it starts over and when nothing was delivered since the selection.
C4_GetReturnsAll ==
    \A c \in Contexts :
        (ctx[c].live /\ ctx[c].has) =>
            /\ get(session_store, ctx[c], c, None, TRUE).ret = RowsOf(c)
            /\ hist[c].seen = <<>> =>
                  get(session_store, ctx[c], c, None, FALSE).ret = RowsOf(c)

\* A context that opened a dataset of two rows and has not read yet, while
\* the other context has read them.
C4_Witness ==
    \E c, d \in Contexts :
        /\ ctx[c].live /\ hist[c].sel = "open" /\ hist[c].seen = <<>>
        /\ Len(RowsOf(c)) = 2
        /\ RowsOf(c)[1] # RowsOf(c)[2]
        /\ get(session_store, ctx[c], c, None, FALSE).ret = RowsOf(c)
        /\ ctx[d].live /\ ctx[d].has /\ ctx[d].filepos = 2

\* C5: the session a live context holds is the session at its path.
C5_SessionAtPath ==
    \A c \in Contexts :
        ctx[c].live =>
            /\ ctx[c].session = ctx[c].path
            /\ Exists(session_store, ctx[c].path)

\* A context two levels down, the other in a directory beside.
C5_Witness ==
    \E c, d \in Contexts :
        /\ ctx[c].live /\ Len(ctx[c].path) = 3
        /\ ctx[d].live /\ Len(ctx[d].path) = 2
        /\ ctx[c].session = ctx[c].path

\* What a request did, without the value it returned.
Effect(o) == [err |-> o.err, ss |-> o.ss, cx |-> o.cx, signals |-> o.signals]

\* The effect of every data, parameter or comment request the context may
\* make in the current state.
DataOutcomes(c) ==
    LET ss == session_store
        cx == ctx[c]
    IN  {Effect(add(ss, cx, c, data)) : data \in Batches}
        \cup {Effect(get(ss, cx, c, l, so)) : l \in Limits, so \in BOOLEAN}
        \cup {Effect(variables(ss, cx, c)), Effect(parameters(ss, cx, c)),
              Effect(get_parameters(ss, cx, c)), Effect(get_name(ss, cx, c))}
        \cup {Effect(add_parameter(ss, cx, c, n, ow)) :
                 n \in ParamNames, ow \in BOOLEAN}
        \cup {Effect(add_parameters(ss, cx, c, ps, ow)) :
                 ps \in ParamBatches, ow \in BOOLEAN}
        \cup {Effect(get_parameter(ss, cx, c, n)) : n \in ParamNames}
        \cup {Effect(add_comment(ss, cx, c, t, u)) :
                 t \in CommentTexts, u \in Users}
        \cup {Effect(get_comments(ss, cx, c, l, so)) :
                 l \in Limits, so \in BOOLEAN}

\* The dataset part of a context.
Selection(cx) ==
    <<cx.has, cx.dataset, cx.datasetObj, cx.filepos, cx.commentpos, cx.writing>>

\* The step moves the context to another directory.
Moves(c) == ctx[c].live /\ ctx'[c].live /\ ctx'[c].path # ctx[c].path

\* C6, as stated: a cd that changes the directory of a context with a
\* dataset open leaves it without one, and its next get fails.
C6_CdClosesDataset ==
    [][\A c \in Contexts :
          (Moves(c) /\ ctx[c].has) =>
              /\ ~ctx'[c].has
              /\ get(session_store', ctx'[c], c, None, FALSE).err = "NoDataset"]_vars

\* C6, amended: a cd that changes the directory leaves the open dataset, the
\* writing flag and the cursors of the context as they were, and no data,
\* parameter or comment request of a context that once selected a dataset
\* fails for want of a dataset.
C6_CdKeepsDataset ==
    /\ [][\A c \in Contexts :
             Moves(c) => Selection(ctx'[c]) = Selection(ctx[c])]_vars
    /\ [](\A c \in Contexts :
             (ctx[c].live /\ hist[c].sel # "none") =>
                 /\ ctx[c].has
                 /\ \A o \in DataOutcomes(c) : o.err # "NoDataset")

\* A context in another directory than the dataset it has open.
C6_Witness ==
    \E c \in Contexts :
        /\ ctx[c].live /\ ctx[c].has
        /\ ctx[c].datasetObj[1] # ctx[c].path
        /\ get(session_store, ctx[c], c, None, FALSE).err = "ok"

\* C7: add succeeds only for a context whose latest selection was made by
\* new; after open it fails with ReadOnly, appends nothing, signals nobody.
C7_AddNeedsNew ==
    \A c \in Contexts, data \in Batches :
        ctx[c].live =>
            LET o == add(session_store, ctx[c], c, data)
            IN  /\ o.err = "ok" => hist[c].sel = "new"
                /\ hist[c].sel = "open" =>
                      /\ o.err = "ReadOnly"
                      /\ o.ss = session_store
                      /\ o.signals = {}

\* A context that opened a dataset holding a row, with listeners on it, and
\* whose well-formed batch is refused; the other context may write.
C7_Witness ==
    \E c, d \in Contexts :
        /\ ctx[c].live /\ hist[c].sel = "open"
        /\ Len(RowsOf(c)) = 1
        /\ add(session_store, ctx[c], c, <<<<0, 1>>>>).err = "ReadOnly"
        /\ ctx[d].live /\ hist[d].sel = "new"
        /\ add(session_store, ctx[d], d, <<<<0, 1>>>>).err = "ok"
        /\ add(session_store, ctx[d], d, <<<<0, 1>>>>).signals # {}

\* C8: every data, parameter and comment request of a context that never
\* selected a dataset fails with NoDataset and changes nothing.
C8_NoDatasetOpen ==
    \A c \in Contexts :
        (ctx[c].live /\ hist[c].sel = "none") =>
            \A o \in DataOutcomes(c) :
                /\ o.err = "NoDataset"
                /\ o.ss = session_store
                /\ o.cx = ctx[c]
                /\ o.signals = {}

\* A context without a dataset beside one that wrote rows, a parameter and
\* a comment to a dataset with listeners.
C8_Witness ==
    \E c, d \in Contexts :
        /\ ctx[c].live /\ hist[c].sel = "none"
        /\ ctx[d].live /\ ctx[d].has
        /\ RowsOf(d) # <<>>
        /\ DatasetAt(session_store, ctx[d].datasetObj).parameters # <<>>
        /\ DatasetAt(session_store, ctx[d].datasetObj).comments # <<>>
        /\ DatasetAt(session_store, ctx[d].datasetObj).param_listeners # {}

\* C9: add of a batch with a row of the wrong length fails, leaves the store
\* as it was and signals nobody; add of any other batch appends its rows,
\* in order, after the rows the dataset held.
C9_AddAllOrNothing ==
    \A c \in Contexts, data \in Batches :
        (ctx[c].live /\ ctx[c].has /\ ctx[c].writing) =>
            LET o == add(session_store, ctx[c], c, data)
                ds == DatasetAt(session_store, ctx[c].datasetObj)
            IN  IF \E i \in 1..Len(data) :
                      Len(data[i]) # Len(ds.independents) + Len(ds.dependents)
                THEN /\ o.err # "ok"
                     /\ o.ss = session_store
                     /\ o.signals = {}
                ELSE /\ o.err = "ok"
                     /\ DatasetAt(o.ss, ctx[c].datasetObj).rows = ds.rows \o data
                     /\ o.ss = PutDataset(session_store, ctx[c].datasetObj,
                                          [ds EXCEPT !.rows = ds.rows \o data])

\* A writer of a dataset with a row and a listener, whose batch of a good
\* row and a long row is refused.
C9_Witness ==
    \E c \in Contexts :
        /\ ctx[c].live /\ ctx[c].has /\ ctx[c].writing
        /\ Len(RowsOf(c)) = 1
        /\ DOMAIN DatasetAt(session_store, ctx[c].datasetObj).listeners # {}
        /\ add(session_store, ctx[c], c, <<<<1, 0>>, <<0, 1, 0>>>>).err = "BadData"
        /\ add(session_store, ctx[c], c, <<<<1, 0>>>>).signals # {}

\* The parameter listeners of a dataset; none while it does not exist.
ParamListeners(ss, ref) ==
    IF ref \in AllRefs(ss) THEN DatasetAt(ss, ref).param_listeners ELSE {}

\* C10: parameters and get_parameters put the caller among the parameter
\* listeners of its dataset, and nothing else puts a context there; an
\* add_parameter or add_parameters that succeeds signals 'new parameter' to
\* exactly the listeners and leaves the set empty.
C10_ParamOneShot ==
    /\ [](\A c \in Contexts :
             (ctx[c].live /\ ctx[c].has) =>
                 LET ds == DatasetAt(session_store, ctx[c].datasetObj)
                     ref == ctx[c].datasetObj
                 IN  /\ c \in ParamListeners(
                                parameters(session_store, ctx[c], c).ss, ref)
                     /\ c \in ParamListeners(
                                get_parameters(session_store, ctx[c], c).ss, ref)
                     /\ \A o \in
                          {add_parameter(session_store, ctx[c], c, n, ow) :
                               n \in ParamNames, ow \in BOOLEAN}
                          \cup {add_parameters(session_store, ctx[c], c, ps, ow) :
                               ps \in ParamBatches, ow \in BOOLEAN} :
                            o.err = "ok" =>
                                /\ o.signals = {<<"new parameter", k>> :
                                                   k \in ds.param_listeners}
                                /\ ParamListeners(o.ss, ref) = {})
    /\ [][\A c \in Contexts, ref \in AllRefs(session_store') :
             (c \in ParamListeners(session_store', ref)
              /\ c \notin ParamListeners(session_store, ref)) =>
                 /\ ctx[c].live /\ ctx[c].has /\ ctx[c].datasetObj = ref
                 /\ session_store' \in
                       {parameters(session_store, ctx[c], c).ss,
                        get_parameters(session_store, ctx[c], c).ss}]_vars

\* Both contexts listen for parameters of a dataset that holds none yet,
\* and the add_parameter of one of them signals both.
C10_Witness ==
    \E c \in Contexts :
        /\ ctx[c].live /\ ctx[c].has
        /\ DatasetAt(session_store, ctx[c].datasetObj).param_listeners = Contexts
        /\ add_parameter(session_store, ctx[c], c, "p", FALSE).err = "ok"
        /\ add_parameter(session_store, ctx[c], c, "p", FALSE).signals =
              {<<"new parameter", k>> : k \in Contexts}
\* The data listeners of a dataset; none while it does not exist.
DataListeners(ss, ref) ==
    IF ref \in AllRefs(ss) THEN DOMAIN DatasetAt(ss, ref).listeners ELSE {}

\* C11: a context that opened a dataset is signalled 'data available' by a
\* successful add of a non-empty batch to it, and stays a data listener of
\* the dataset until it expires; every successful add signals exactly the
\* data listeners whose offset is below the new number of rows.
C11_AddSignalsListeners ==
    /\ [](\A d \in Contexts, data \in Batches :
             (ctx[d].live /\ ctx[d].has) =>
                 LET ds == DatasetAt(session_store, ctx[d].datasetObj)
                     o == add(session_store, ctx[d], d, data)
                 IN  o.err = "ok" =>
                       /\ o.signals =
                            {<<"data available", k>> :
                                k \in {j \in DOMAIN ds.listeners :
                                         ds.listeners[j] < Len(ds.rows) + Len(data)}}
                       /\ \A c \in Contexts :
                            (/\ ctx[c].live /\ hist[c].sel = "open"
                             /\ ctx[c].datasetObj = ctx[d].datasetObj
                             /\ data # <<>>) =>
                                <<"data available", c>> \in o.signals)
    /\ [][\A c \in Contexts, ref \in AllRefs(session_store) :
             (c \in DataListeners(session_store, ref)
              /\ c \notin DataListeners(session_store', ref)) =>
                 (ctx[c].live /\ ~ctx'[c].live)]_vars

\* A reader that opened the dataset and read its row, and a writer that
\* never read: the writer's next row is signalled to the reader alone.
C11_Witness ==
    \E c, d \in Contexts :
        /\ ctx[c].live /\ hist[c].sel = "open" /\ ctx[c].filepos = 1
        /\ ctx[d].live /\ ctx[d].writing
        /\ ctx[d].datasetObj = ctx[c].datasetObj
        /\ add(session_store, ctx[d], d, <<<<1, 0>>>>).signals =
              {<<"data available", c>>}
\* C12: a context that is a data listener of the dataset it has selected is
\* registered there at its row cursor, and a comment listener at its comment
\* cursor; open, get and get_comments leave the caller registered so.
C12_ListenerAtCursor ==
    \A c \in Contexts :
        ctx[c].live =>
            /\ ctx[c].has =>
                  LET ds == DatasetAt(session_store, ctx[c].datasetObj)
                  IN  /\ c \in DOMAIN ds.listeners =>
                            ds.listeners[c] = ctx[c].filepos
                      /\ c \in DOMAIN ds.comment_listeners =>
                            ds.comment_listeners[c] = ctx[c].commentpos
            /\ \A o \in {get(session_store, ctx[c], c, l, so) :
                            l \in Limits, so \in BOOLEAN} :
                  o.err = "ok" =>
                      LET ds == DatasetAt(o.ss, o.cx.datasetObj)
                      IN  /\ c \in DOMAIN ds.listeners
                          /\ ds.listeners[c] = o.cx.filepos
            /\ \A o \in {get_comments(session_store, ctx[c], c, l, so) :
                            l \in Limits, so \in BOOLEAN} :
                  o.err = "ok" =>
                      LET ds == DatasetAt(o.ss, o.cx.datasetObj)
                      IN  /\ c \in DOMAIN ds.comment_listeners
                          /\ ds.comment_listeners[c] = o.cx.commentpos
            /\ \A o \in {open(session_store, ctx[c], c, arg) : arg \in OpenArgs} :
                  o.err = "ok" =>
                      LET ds == DatasetAt(o.ss, o.cx.datasetObj)
                      IN  /\ c \in DOMAIN ds.listeners
                          /\ ds.listeners[c] = o.cx.filepos
                          /\ c \in DOMAIN ds.comment_listeners
                          /\ ds.comment_listeners[c] = o.cx.commentpos

\* A context registered behind two rows and a comment of its dataset, and
\* still registered, at another offset, in a dataset it selected before.
C12_Witness ==
    \E c \in Contexts :
        /\ ctx[c].live /\ ctx[c].has
        /\ ctx[c].filepos = 2 /\ ctx[c].commentpos = 1
        /\ LET ds == DatasetAt(session_store, ctx[c].datasetObj)
           IN  /\ c \in DOMAIN ds.listeners /\ ds.listeners[c] = 2
               /\ c \in DOMAIN ds.comment_listeners /\ ds.comment_listeners[c] = 1
        /\ \E ref \in AllRefs(session_store) \ {ctx[c].datasetObj} :
              /\ c \in DOMAIN DatasetAt(session_store, ref).listeners
              /\ DatasetAt(session_store, ref).listeners[c] # ctx[c].filepos
\* The paths a cd by name walks through from `path`, one per segment.
RECURSIVE Walked(_, _)
Walked(path, segs) ==
    IF segs = <<>> THEN <<>>
    ELSE LET t == IF Head(segs) = "" THEN Root ELSE Append(path, Head(segs))
         IN  <<t>> \o Walked(t, Tail(segs))

\* The arguments of a cd by name.
NameArgs == {arg \in CdArgs : arg.kind # "w"}

\* C13: a cd by name without create fails with DirectoryNotFound exactly when
\* it walks to a path that has no session; the failure leaves the store (its
\* sessions and their listeners) and the context as they were.
C13_CdNotFound ==
    \A c \in Contexts, arg \in NameArgs :
        ctx[c].live =>
            LET o == cd(session_store, ctx[c], c, arg, FALSE)
                missing == \E p \in Range(Walked(ctx[c].path, CdSegments(arg))) :
                               p \notin DOMAIN session_store
            IN  /\ missing <=> o.err = "DirectoryNotFound"
                /\ missing =>
                      /\ o.ss = session_store
                      /\ o.cx = ctx[c]

\* A context at the root of a store that holds "a" and not "a/b": its cd to
\* "a", "b" without create fails after the first segment was found.
C13_Witness ==
    \E c \in Contexts :
        /\ ctx[c].live /\ ctx[c].path = Root
        /\ <<"", "a">> \in DOMAIN session_store
        /\ <<"", "a", "b">> \notin DOMAIN session_store
        /\ cd(session_store, ctx[c], c, [kind |-> "*s", val |-> <<"a", "b">>],
              FALSE).err = "DirectoryNotFound"
        /\ cd(session_store, ctx[c], c, [kind |-> "s", val |-> "a"],
              FALSE).err = "ok"
\* C14: a cd by name with create succeeds and leaves a session at every path
\* it walked, creates no session anywhere else and changes no dataset; the
\* paths that have a session always include the ancestors of each of them.
C14_CdCreatesWalked ==
    /\ \A p \in DOMAIN session_store : Prefixes(p) \subseteq DOMAIN session_store
    /\ \A c \in Contexts, arg \in NameArgs :
          ctx[c].live =>
              LET o == cd(session_store, ctx[c], c, arg, TRUE)
                  walked == Range(Walked(ctx[c].path, CdSegments(arg)))
              IN  /\ o.err = "ok"
                  /\ DOMAIN o.ss = DOMAIN session_store \cup walked
                  /\ \A p \in DOMAIN session_store :
                        o.ss[p].datasets = session_store[p].datasets
                  /\ \A p \in walked \ DOMAIN session_store :
                        o.ss[p].datasets = <<>>

\* A context that cd moved from the root to "a/b": "a" and "a/b" exist, and
\* nothing else below the root; its cd to "b" and back to the root, with
\* create, would add "a/b/b" alone.
C14_Witness ==
    \E c \in Contexts :
        /\ ctx[c].live /\ ctx[c].path = <<"", "a", "b">>
        /\ DOMAIN session_store = {Root, <<"", "a">>, <<"", "a", "b">>}
        /\ DOMAIN cd(session_store, ctx[c], c,
                     [kind |-> "*s", val |-> <<"b", "">>], TRUE).ss =
              DOMAIN session_store \cup {<<"", "a", "b", "b">>}
\* C15: a mkdir that succeeds leaves a session at the current path extended
\* by the name; a session, once there, stays; and a cd without create by a
\* name whose session exists below the caller's directory succeeds and moves
\* the caller there.  Every directory below the root was made by mkdir.
C15_MkdirThenCd ==
    /\ [](\A c \in Contexts, name \in Segments :
             ctx[c].live =>
                 LET o == mkdir(session_store, ctx[c], c, name)
                 IN  o.err = "ok" => Append(ctx[c].path, name) \in DOMAIN o.ss)
    /\ [][\A p \in DOMAIN session_store : p \in DOMAIN session_store']_vars
    /\ [](\A d \in Contexts, name \in Names :
             (ctx[d].live /\ Append(ctx[d].path, name) \in DOMAIN session_store) =>
                 LET o == cd(session_store, ctx[d], d,
                             [kind |-> "s", val |-> name], FALSE)
                 IN  /\ o.err = "ok"
                     /\ o.cx.path = Append(ctx[d].path, name))

\* A context in a directory that mkdir made, below which mkdir made another
\* where nobody has been; the other context has expired since.
C15_Witness ==
    \E c, d \in Contexts :
        /\ ctx[c].live /\ ctx[c].path = <<"", "a">>
        /\ <<"", "a", "b">> \in DOMAIN session_store
        /\ ~ctx[d].live /\ hist[d].cleared = 1
        /\ cd(session_store, ctx[c], c, [kind |-> "s", val |-> "b"], FALSE).err = "ok"
\* C16: mkdir fails with EmptyName for the empty name and with
\* DirectoryExists when the current path extended by the name has a session,
\* and then changes nothing; otherwise it adds that one session, empty,
\* returns its path, and leaves every other session, with its listeners,
\* and the caller's context as they were.
C16_Mkdir ==
    \A c \in Contexts, name \in Segments :
        ctx[c].live =>
            LET o == mkdir(session_store, ctx[c], c, name)
                child == Append(ctx[c].path, name)
            IN  /\ o.cx = ctx[c]
                /\ o.signals = {}
                /\ IF name = ""
                   THEN o.err = "EmptyName" /\ o.ss = session_store
                   ELSE IF child \in DOMAIN session_store
                   THEN o.err = "DirectoryExists" /\ o.ss = session_store
                   ELSE /\ o.err = "ok"
                        /\ o.ret = child
                        /\ DOMAIN o.ss = DOMAIN session_store \cup {child}
                        /\ o.ss[child] = NewSession
                        /\ \A p \in DOMAIN session_store : o.ss[p] = session_store[p]

\* A context in "a" beside "a/b", where the other context listens: its mkdir
\* of "b" fails, its mkdir of "a" would make "a/a", and it still listens in "a".
C16_Witness ==
    \E c, d \in Contexts :
        /\ ctx[c].live /\ ctx[c].path = <<"", "a">>
        /\ ctx[d].live /\ ctx[d].path = <<"", "a", "b">>
        /\ mkdir(session_store, ctx[c], c, "b").err = "DirectoryExists"
        /\ mkdir(session_store, ctx[c], c, "").err = "EmptyName"
        /\ mkdir(session_store, ctx[c], c, "a").err = "ok"
        /\ session_store[<<"", "a">>].listeners = {c}
\* The paths a request may hand to SessionStore.get: those that have a
\* session, and their children.
GetPaths ==
    DOMAIN session_store
    \cup {Append(p, n) : p \in DOMAIN session_store, n \in Names}

Dumped(ss) == dump_existing_sessions(ss, NoContext, "c1").ret

\* C18: once the server has started the root session exists; every step
\* keeps every session, so that the paths dump_existing_sessions reports
\* only grow, also when the last listener of a session expires.
C18_SessionsStay ==
    /\ [](serving => Root \in DOMAIN session_store)
    /\ [](serving => <<>> \in Dumped(session_store))
    /\ [][/\ DOMAIN session_store \subseteq DOMAIN session_store'
          /\ Dumped(session_store) \subseteq Dumped(session_store')]_vars

\* Both contexts have expired, the last of them out of "a/b": the root, "a"
\* and "a/b" are still there, without a listener, and still reported.
C18_Witness ==
    /\ \A c \in Contexts : ~ctx[c].live /\ hist[c].cleared = 1
    /\ DOMAIN session_store = {Root, <<"", "a">>, <<"", "a", "b">>}
    /\ \A p \in DOMAIN session_store : session_store[p].listeners = {}
    /\ Dumped(session_store) = {<<>>, <<"/", "a">>, <<"/", "a", "/", "b">>}
\* The names of the datasets of a session.
DatasetNames(sess) == {sess.datasets[i].name : i \in 1..Len(sess.datasets)}

\* C19: the datasets of a session have distinct names, numbered in the order
\* of their creation; new adds one dataset to the caller's session, under a
\* name no dataset of the session has and a number above all of theirs,
\* selects it, and leaves every dataset there was in place.
C19_FreshNames ==
    /\ \A p \in DOMAIN session_store :
          \A i, j \in 1..Len(session_store[p].datasets) :
              i < j => /\ session_store[p].datasets[i].name.num <
                              session_store[p].datasets[j].name.num
                       /\ session_store[p].datasets[i].name #
                              session_store[p].datasets[j].name
    /\ \A c \in Contexts, name \in Titles :
          ctx[c].live =>
              LET o == new(session_store, ctx[c], c, name)
                  p == ctx[c].session
                  old == session_store[p].datasets
              IN  /\ o.err = "ok"
                  /\ o.cx.datasetObj \notin AllRefs(session_store)
                  /\ AllRefs(o.ss) = AllRefs(session_store) \cup {o.cx.datasetObj}
                  /\ o.cx.datasetObj[1] = p
                  /\ o.cx.dataset = DatasetAt(o.ss, o.cx.datasetObj).name
                  /\ o.cx.dataset \notin DatasetNames(session_store[p])
                  /\ o.cx.dataset.title = NewTitle(name)
                  /\ \A n \in DatasetNames(session_store[p]) : n.num < o.cx.dataset.num
                  /\ \A r \in AllRefs(session_store) :
                        DatasetAt(o.ss, r) = DatasetAt(session_store, r)

\* Two datasets of the root created under the same title, one by each
\* context.
C19_Witness ==
    \E c, d \in Contexts :
        /\ c # d
        /\ ctx[c].live /\ hist[c].sel = "new" /\ ctx[c].datasetObj = <<Root, 1>>
        /\ ctx[d].live /\ hist[d].sel = "new" /\ ctx[d].datasetObj = <<Root, 2>>
        /\ ctx[c].dataset.title = ctx[d].dataset.title
        /\ ctx[c].dataset # ctx[d].dataset
\* The entries a client may name in the session at path.
Entries(path) ==
    {<<"dir", n>> : n \in Names}
    \cup {<<"dataset", [num |-> 1, title |-> "scan"]>>}

\* The toggle of the tag, as a str and as a list of one.
ToggleArgs == {tags \in TagArgs : AsList(tags) = <<<<"^", "t">>>>}

\* C20: two update_tags calls in a row that toggle a tag, with the same
\* entries, leave the tags of every entry of every session as they were; the
\* first call, when it succeeds on one entry, changes whether the entry
\* holds the tag.
C20_ToggleTwice ==
    \A c \in Contexts, tags \in ToggleArgs, dirs \in DirArgs,
       datasets \in DatasetArgs \cup {None}, byName \in BOOLEAN :
        ctx[c].live =>
            LET o1 == update_tags(session_store, ctx[c], c, tags, dirs,
                                  datasets, byName)
                o2 == update_tags(o1.ss, o1.cx, c, tags, dirs, datasets, byName)
                p == ctx[c].session
            IN  /\ \A q \in DOMAIN session_store :
                      \A e \in Entries(q) :
                          TagsOf(o2.ss[q], e) = TagsOf(session_store[q], e)
                /\ o2.err = o1.err
                /\ (o1.err = "ok" /\ dirs = [kind |-> "s", val |-> "a"]) =>
                      (<<"t">> \in TagsOf(o1.ss[p], <<"dir", "a">>)) #
                      (<<"t">> \in TagsOf(session_store[p], <<"dir", "a">>))

\* A root whose directory "a" holds the tag and whose dataset, tagged and
\* untagged again, does not: a toggle of both takes it from the one and
\* gives it to the other.
C20_Witness ==
    \E c \in Contexts :
        /\ ctx[c].live /\ ctx[c].path = Root
        /\ TagsOf(session_store[Root], <<"dir", "a">>) = {<<"t">>}
        /\ <<"dataset", [num |-> 1, title |-> "scan"]>> \in
              DOMAIN session_store[Root].tags
        /\ TagsOf(session_store[Root],
                  <<"dataset", [num |-> 1, title |-> "scan"]>>) = {}
        /\ LET o == update_tags(session_store, ctx[c], c,
                                [kind |-> "s", val |-> <<"^", "t">>],
                                [kind |-> "s", val |-> "a"],
                                [kind |-> "s", val |-> [num |-> 1, title |-> "scan"]],
                                TRUE)
           IN  /\ o.err = "ok"
               /\ TagsOf(o.ss[Root], <<"dir", "a">>) = {}
               /\ TagsOf(o.ss[Root],
                         <<"dataset", [num |-> 1, title |-> "scan"]>>) = {<<"t">>}
\* The effect of every request of the context, in the current state, that is
\* no new, no open and no get or get_comments that starts over.
PlainEffects(c) ==
    LET ss == session_store
        cx == ctx[c]
    IN  {Effect(add(ss, cx, c, data)) : data \in Batches}
        \cup {Effect(get(ss, cx, c, l, FALSE)) : l \in Limits}
        \cup {Effect(get_comments(ss, cx, c, l, FALSE)) : l \in Limits}
        \cup {Effect(variables(ss, cx, c)), Effect(parameters(ss, cx, c)),
              Effect(get_parameters(ss, cx, c)), Effect(get_name(ss, cx, c)),
              Effect(pwd(ss, cx, c)), Effect(dump_existing_sessions(ss, cx, c))}
        \cup {Effect(add_parameter(ss, cx, c, n, ow)) :
                 n \in ParamNames, ow \in BOOLEAN}
        \cup {Effect(add_parameters(ss, cx, c, ps, ow)) :
                 ps \in ParamBatches, ow \in BOOLEAN}
        \cup {Effect(get_parameter(ss, cx, c, n)) : n \in ParamNames}
        \cup {Effect(add_comment(ss, cx, c, t, u)) :
                 t \in CommentTexts, u \in Users}
        \cup {Effect(cd(ss, cx, c, arg, create)) :
                 arg \in CdArgs, create \in BOOLEAN}
        \cup {Effect(mkdir(ss, cx, c, name)) : name \in Segments}

\* The contexts a request that resets a cursor may leave the context in.
ResetContexts(c) ==
    LET ss == session_store
        cx == ctx[c]
    IN  {new(ss, cx, c, name).cx : name \in Titles}
        \cup {open(ss, cx, c, arg).cx : arg \in OpenArgs}
        \cup {get(ss, cx, c, l, TRUE).cx : l \in Limits}
        \cup {get_comments(ss, cx, c, l, TRUE).cx : l \in Limits}

\* C21: the row cursor and the comment cursor of a context stay within the
\* rows and the comments of its dataset; no request other than new, open and
\* a get or get_comments that starts over lowers either of them, a get that
\* starts over leaves the comment cursor and a get_comments that starts over
\* leaves the row cursor; a step lowers a cursor only through such a request.
C21_CursorsMonotone ==
    /\ [](\A c \in Contexts :
             (ctx[c].live /\ ctx[c].has) =>
                 LET ds == DatasetAt(session_store, ctx[c].datasetObj)
                 IN  /\ ctx[c].filepos \in 0..Len(ds.rows)
                     /\ ctx[c].commentpos \in 0..Len(ds.comments))
    /\ [](\A c \in Contexts :
             ctx[c].live =>
                 /\ \A o \in PlainEffects(c) :
                       /\ o.cx.filepos >= ctx[c].filepos
                       /\ o.cx.commentpos >= ctx[c].commentpos
                 /\ \A l \in Limits :
                       /\ get(session_store, ctx[c], c, l, TRUE).cx.commentpos =
                             ctx[c].commentpos
                       /\ get_comments(session_store, ctx[c], c, l, TRUE).cx.filepos =
                             ctx[c].filepos)
    /\ [][\A c \in Contexts :
             (/\ ctx[c].live /\ ctx'[c].live
              /\ \/ ctx'[c].filepos < ctx[c].filepos
                 \/ ctx'[c].commentpos < ctx[c].commentpos) =>
                 ctx'[c] \in ResetContexts(c)]_vars

\* A context behind two rows and a comment of its dataset: a get of one row
\* leaves its cursor, and the same get starting over takes it back to 1.
C21_Witness ==
    \E c \in Contexts :
        /\ ctx[c].live /\ ctx[c].has
        /\ ctx[c].filepos = 2 /\ ctx[c].commentpos = 1
        /\ get(session_store, ctx[c], c, <<1>>, FALSE).cx.filepos = 2
        /\ get(session_store, ctx[c], c, <<1>>, TRUE).cx.filepos = 1
        /\ get_comments(session_store, ctx[c], c, None, TRUE).cx.commentpos = 1
\* The numbers a client may pass to cd.
UpArgs == {arg \in CdArgs : arg.kind = "w"}

\* The ancestor of a path at the given depth below the root.
Ancestor(path, depth) == SubSeq(path, 1, depth + 1)

\* C22: a cd by a number n succeeds, with or without create, and moves the
\* context from depth d to its ancestor at depth d - n, or to the root when
\* n exceeds d; the path it returns is the context's new path, is not empty
\* and starts at the root; no session is created, and n = 0 changes nothing.
C22_CdUp ==
    \A c \in Contexts, arg \in UpArgs, create \in BOOLEAN :
        ctx[c].live =>
            LET o == cd(session_store, ctx[c], c, arg, create)
                d == Len(ctx[c].path) - 1
                n == arg.val
            IN  /\ o.err = "ok"
                /\ o.cx.path = Ancestor(ctx[c].path, IF n >= d THEN 0 ELSE d - n)
                /\ o.ret = o.cx.path
                /\ o.cx.path # <<>> /\ o.cx.path[1] = ""
                /\ o.cx.session = o.cx.path
                /\ DOMAIN o.ss = DOMAIN session_store
                /\ n = 0 => (o.ss = session_store /\ o.cx = ctx[c])

\* A context two levels down, the other at the root: cd 1 takes it to "a",
\* cd 2 and cd 3 to the root, cd 0 nowhere.
C22_Witness ==
    \E c, d \in Contexts :
        /\ ctx[c].live /\ ctx[c].path = <<"", "a", "b">>
        /\ ctx[d].live /\ ctx[d].path = Root
        /\ cd(session_store, ctx[c], c, [kind |-> "w", val |-> 1], FALSE).ret =
              <<"", "a">>
        /\ cd(session_store, ctx[c], c, [kind |-> "w", val |-> 2], FALSE).ret = Root
        /\ cd(session_store, ctx[c], c, [kind |-> "w", val |-> 3], FALSE).ret = Root
        /\ cd(session_store, ctx[c], c, [kind |-> "w", val |-> 0], FALSE).ret =
              ctx[c].path
\* A listener structure with offsets, without the entry of a key.
Without(ls, key) == [k \in DOMAIN ls \ {key} |-> ls[k]]

\* C23: a step in which a context expires leaves every other context as it
\* was, and every session with its datasets, its tags and each dataset's
\* variables, rows, parameters and comments; of the listener structures it
\* removes the expired key and nothing else, each other entry keeping its
\* offset.
C23_ExpireFrame ==
    [][\A c \in Contexts :
          (ctx[c].live /\ ~ctx'[c].live) =>
              /\ \A d \in Contexts \ {c} : ctx'[d] = ctx[d]
              /\ DOMAIN session_store' = DOMAIN session_store
              /\ \A p \in DOMAIN session_store :
                    LET s0 == session_store[p]
                        s1 == session_store'[p]
                    IN  /\ s1.listeners = s0.listeners \ {c}
                        /\ s1.tags = s0.tags
                        /\ Len(s1.datasets) = Len(s0.datasets)
                        /\ \A i \in 1..Len(s0.datasets) :
                              LET d0 == s0.datasets[i]
                                  d1 == s1.datasets[i]
                              IN  /\ d1.name = d0.name
                                  /\ d1.independents = d0.independents
                                  /\ d1.dependents = d0.dependents
                                  /\ d1.rows = d0.rows
                                  /\ d1.parameters = d0.parameters
                                  /\ d1.comments = d0.comments
                                  /\ d1.listeners = Without(d0.listeners, c)
                                  /\ d1.param_listeners = d0.param_listeners \ {c}
                                  /\ d1.comment_listeners =
                                        Without(d0.comment_listeners, c)]_vars

\* A context has expired out of the root and the three listener structures
\* of the dataset; the other still listens to the root and to the dataset's
\* row, parameter and comment, at its offsets, and the dataset keeps its tag.
C23_Witness ==
    \E c, d \in Contexts :
        /\ ~ctx[c].live /\ hist[c].cleared = 4
        /\ ctx[d].live /\ ctx[d].has /\ ctx[d].filepos = 1 /\ ctx[d].commentpos = 1
        /\ session_store[Root].listeners = {d}
        /\ LET ds == DatasetAt(session_store, ctx[d].datasetObj)
           IN  /\ Len(ds.rows) = 1 /\ Len(ds.parameters) = 1 /\ Len(ds.comments) = 1
               /\ ds.listeners = [k \in {d} |-> 1]
               /\ ds.comment_listeners = [k \in {d} |-> 1]
               /\ ds.param_listeners = {d}
        /\ TagsOf(session_store[Root], <<"dataset", ctx[d].dataset>>) = {<<"t">>}
====
